---- MODULE Spec2Model ----
(***************************************************************************)
(* Strangler Fig proxy (src/microservices/proxy/main.py) and the events    *)
(* service (src/microservices/events/main.py).                             *)
(*                                                                         *)
(* Strings that the code inspects character by character (paths, URLs) are *)
(* sequences of tokens.  No token is a prefix of another one, so a token   *)
(* sequence is a prefix of another exactly when the string it spells is a  *)
(* prefix of the other string, and str.startswith is the sequence prefix.  *)
(***************************************************************************)
EXTENDS Integers, Sequences, FiniteSets, TLC

VARIABLES cfg, rt, backlog, cur, ev, offsets

vars == <<cfg, rt, backlog, cur, ev, offsets>>

None == "None"

----------------------------------------------------------------------------
(* Bounds *)

MaxPathLen == 3
MaxBacklog == 2
MaxHeaders == 1
MaxBody == 1
MaxOffset == 2

----------------------------------------------------------------------------
(* Configuration: ProxyHandler.__init__ *)

monolith_url == <<"http://monolith:8080">>
movies_service_url == <<"http://movies-service:8081">>
events_service_url == <<"http://events-service:8082">>

Percents == 0..100

Configs == [gradual_migration : BOOLEAN, movies_migration_percent : Percents]

\* the server specification explores the two ends and one interior percentage
ServerConfigs == {c \in Configs : c.movies_migration_percent \in {0, 50, 100}}

----------------------------------------------------------------------------
(* Paths *)

PathTokens == {"/api", "/movies", "/events", "/health", "s"}

RECURSIVE SeqsUpTo(_, _)
SeqsUpTo(S, n) ==
    IF n = 0 THEN {<<>>}
    ELSE LET shorter == SeqsUpTo(S, n - 1)
         IN  shorter \cup {Append(q, x) : q \in {p \in shorter : Len(p) = n - 1}, x \in S}

Paths == SeqsUpTo(PathTokens, MaxPathLen) \ {<<>>}

HealthPath == <<"/health">>
MoviesHealthPath == <<"/api", "/movies", "/health">>
MoviesPrefix == <<"/api", "/movies">>
EventsPrefix == <<"/api", "/events">>

\* str.startswith
StartsWith(s, prefix) ==
    /\ Len(s) >= Len(prefix)
    /\ SubSeq(s, 1, Len(prefix)) = prefix

\* random.randint(0, 99)
Draws == 0..99

----------------------------------------------------------------------------
(* Router: ProxyHandler._determine_target.  r is the value random.randint  *)
(* returns if it is called; drew says whether it was called.               *)

DetermineTargetNoFallback(c, path, r) ==
    IF path = MoviesHealthPath
    THEN [url |-> movies_service_url \o path, drew |-> FALSE]
    ELSE IF StartsWith(path, MoviesPrefix)
    THEN IF c.gradual_migration
         THEN IF r < c.movies_migration_percent
              THEN [url |-> movies_service_url \o path, drew |-> TRUE]
              ELSE [url |-> monolith_url \o path, drew |-> TRUE]
         ELSE [url |-> monolith_url \o path, drew |-> FALSE]
    ELSE IF StartsWith(path, EventsPrefix)
    THEN [url |-> events_service_url \o path, drew |-> FALSE]
    ELSE [url |-> <<>>, drew |-> FALSE]

DetermineTargetLeq(c, path, r) ==
    IF path = MoviesHealthPath
    THEN [url |-> movies_service_url \o path, drew |-> FALSE]
    ELSE IF StartsWith(path, MoviesPrefix)
    THEN IF c.gradual_migration
         THEN IF r <= c.movies_migration_percent
              THEN [url |-> movies_service_url \o path, drew |-> TRUE]
              ELSE [url |-> monolith_url \o path, drew |-> TRUE]
         ELSE [url |-> monolith_url \o path, drew |-> FALSE]
    ELSE IF StartsWith(path, EventsPrefix)
    THEN [url |-> events_service_url \o path, drew |-> FALSE]
    ELSE [url |-> monolith_url \o path, drew |-> FALSE]

DetermineTargetHealthAfterPrefix(c, path, r) ==
    IF StartsWith(path, MoviesPrefix)
    THEN IF c.gradual_migration
         THEN IF r < c.movies_migration_percent
              THEN [url |-> movies_service_url \o path, drew |-> TRUE]
              ELSE [url |-> monolith_url \o path, drew |-> TRUE]
         ELSE [url |-> monolith_url \o path, drew |-> FALSE]
    ELSE IF path = MoviesHealthPath
    THEN [url |-> movies_service_url \o path, drew |-> FALSE]
    ELSE IF StartsWith(path, EventsPrefix)
    THEN [url |-> events_service_url \o path, drew |-> FALSE]
    ELSE [url |-> monolith_url \o path, drew |-> FALSE]

DetermineTarget(c, path, r) ==
    IF path = MoviesHealthPath
    THEN [url |-> movies_service_url \o path, drew |-> FALSE]
    ELSE IF StartsWith(path, MoviesPrefix)
    THEN IF c.gradual_migration
         THEN IF r < c.movies_migration_percent
              THEN [url |-> movies_service_url \o path, drew |-> TRUE]
              ELSE [url |-> monolith_url \o path, drew |-> TRUE]
         ELSE [url |-> monolith_url \o path, drew |-> FALSE]
    ELSE IF StartsWith(path, EventsPrefix)
    THEN [url |-> events_service_url \o path, drew |-> FALSE]
    ELSE [url |-> monolith_url \o path, drew |-> FALSE]

\* ProxyHandler._handle_request up to the call of _proxy_request:
\* "local" answers /health itself, "notfound" is the 404 branch taken when
\* the target is falsy, "proxy" goes on to _proxy_request(target_url).
RouteLocalAfterRouting(c, path, r) ==
    LET t == DetermineTarget(c, path, r)
    IN  IF t.url = <<>>
        THEN [kind |-> "notfound", url |-> <<>>, drew |-> t.drew, routed |-> TRUE]
        ELSE IF path = HealthPath
        THEN [kind |-> "local", url |-> <<>>, drew |-> t.drew, routed |-> TRUE]
        ELSE [kind |-> "proxy", url |-> t.url, drew |-> t.drew, routed |-> TRUE]

Route(c, path, r) ==
    IF path = HealthPath
    THEN [kind |-> "local", url |-> <<>>, drew |-> FALSE, routed |-> FALSE]
    ELSE LET t == DetermineTarget(c, path, r)
         IN  IF t.url = <<>>
             THEN [kind |-> "notfound", url |-> <<>>, drew |-> t.drew, routed |-> TRUE]
             ELSE [kind |-> "proxy", url |-> t.url, drew |-> t.drew, routed |-> TRUE]

----------------------------------------------------------------------------
(* HTTP messages *)

\* BaseHTTPRequestHandler.handle_one_request calls do_<command> when the
\* handler class defines it; ProxyHandler defines these four
HandledMethods == {"GET", "POST", "PUT", "DELETE"}
Methods == HandledMethods \cup {"PATCH"}

HeaderNames ==
    {"Host", "Connection", "Content-Length", "Transfer-Encoding",
     "Content-Type", "content-type", "X-Trace"}

\* str.lower on the header names above
Lower(h) ==
    CASE h = "Host" -> "host"
      [] h = "Connection" -> "connection"
      [] h = "Content-Length" -> "content-length"
      [] h = "Transfer-Encoding" -> "transfer-encoding"
      [] h = "Content-Type" -> "content-type"
      [] h = "X-Trace" -> "x-trace"
      [] OTHER -> h

Byte == 7
Bodies == UNION {[1..n -> {Byte}] : n \in 0..MaxBody}

\* str(n) for 0 <= n <= 99, and int(v) with the strings it accepts
Digit == [d \in 0..9 |-> CASE d = 0 -> "0" [] d = 1 -> "1" [] d = 2 -> "2"
                            [] d = 3 -> "3" [] d = 4 -> "4" [] d = 5 -> "5"
                            [] d = 6 -> "6" [] d = 7 -> "7" [] d = 8 -> "8"
                            [] OTHER -> "9"]
ToStr(n) == IF n < 10 THEN Digit[n] ELSE Digit[n \div 10] \o Digit[n % 10]
IsInt(v) == \E n \in 0..99 : ToStr(n) = v
ToInt(v) == CHOOSE n \in 0..99 : ToStr(n) = v

InValues(h) == IF h = "Content-Length" THEN {ToStr(n) : n \in 0..MaxBody} \cup {"abc"}
               ELSE {"v"}
\* a downstream Content-Length that is not the length of the relayed body
StaleLength == "99"
OutValues(h) == IF h = "Content-Length" THEN {StaleLength} ELSE {"v"}

NameSets == {S \in SUBSET HeaderNames : Cardinality(S) <= MaxHeaders}

\* header blocks of inbound requests and of downstream responses
InHeaders == UNION {{f \in [S -> UNION {InValues(h) : h \in S}] :
                        \A h \in S : f[h] \in InValues(h)} : S \in NameSets}
OutHeaders == UNION {{f \in [S -> UNION {OutValues(h) : h \in S}] :
                        \A h \in S : f[h] \in OutValues(h)} : S \in NameSets}

\* an absent or empty header dict, and the body None; requests sends no body
\* for data=None as for data=b''
NoHeaders == [h \in {} |-> "v"]
NoBody == <<>>

Restrict(f, S) == [h \in S |-> f[h]]

\* content handed to _send_response: a str (isStr) or bytes
Str(data) == [isStr |-> TRUE, data |-> data]
Bytes(data) == [isStr |-> FALSE, data |-> data]

\* str.encode('utf-8') of the ASCII texts the proxy produces: the same
\* units, now bytes
Encode(content) == IF content.isStr THEN Bytes(content.data) ELSE content

HealthBody == Str(<<"Strangler Fig Proxy is healthy">>)
\* f'{{"error": "{message}"}}'
ErrorBody(message) == Str(<<"{\"error\": \"">> \o message \o <<"\"}">>)
IsErrorBody(content) ==
    /\ Len(content.data) >= 2
    /\ content.data[1] = "{\"error\": \""
    /\ content.data[Len(content.data)] = "\"}"

----------------------------------------------------------------------------
(* Forwarder: ProxyHandler._proxy_request, first half (lines 71-89) *)

RequestHopHeaders == {"host", "connection", "content-length"}

FilterRequestHeadersAll(headers) == headers

FilterRequestHeaders(headers) ==
    Restrict(headers, {h \in DOMAIN headers : Lower(h) \notin RequestHopHeaders})

\* the outbound call requests.request(method, url, headers, data, timeout=30),
\* or the exception int(content_length) raises
BuildOutbound(method, url, headers) ==
    LET hasLength == "Content-Length" \in DOMAIN headers
    IN  IF hasLength /\ ~IsInt(headers["Content-Length"])
        THEN [raised |-> TRUE, method |-> method, url |-> url,
              headers |-> NoHeaders, data |-> NoBody]
        ELSE [raised |-> FALSE,
              method |-> method,
              url |-> url,
              headers |-> FilterRequestHeaders(headers),
              data |-> IF hasLength
                       THEN [i \in 1..ToInt(headers["Content-Length"]) |-> Byte]
                       ELSE NoBody]

----------------------------------------------------------------------------
(* Responder: ProxyHandler._send_response / _send_error_response.          *)
(* st.hbuf is BaseHTTPRequestHandler._headers_buffer, st.written what has  *)
(* been written to the client's socket.  io is what the socket does:       *)
(* "ok", "flush_fails" (end_headers raises), "body_fails" (the header      *)
(* block goes out, wfile.write(content) raises).                           *)

IOs == {"ok", "flush_fails", "body_fails"}

ResponseHopHeaders == {"content-type", "content-length", "transfer-encoding"}

HeadBlock(status_code, content, headers, content_type) ==
    LET ct == IF content_type # None THEN content_type
              ELSE IF "Content-Type" \in DOMAIN headers
                   THEN headers["Content-Type"]
              ELSE IF content.isStr THEN "text/plain; charset=utf-8"
              ELSE "application/json"
        copied == {<<h, headers[h]>> : h \in
                     {k \in DOMAIN headers : Lower(k) \notin ResponseHopHeaders}}
    IN  [kind |-> "head",
         status |-> status_code,
         headers |-> {<<"Content-Type", ct>>} \cup copied
                       \cup {<<"Content-Length", ToStr(Len(Encode(content).data))>>}]

SendResponse(st, status_code, content, headers, content_type, io) ==
    LET hbuf == Append(st.hbuf, HeadBlock(status_code, content, headers, content_type))
    IN  CASE io = "flush_fails" ->
               [hbuf |-> hbuf, written |-> st.written, raised |-> TRUE]
          [] io = "body_fails" ->
               [hbuf |-> <<>>, written |-> st.written \o hbuf, raised |-> TRUE]
          [] OTHER ->
               [hbuf |-> <<>>,
                written |-> st.written \o hbuf
                              \o <<[kind |-> "body", content |-> Encode(content)]>>,
                raised |-> FALSE]

SendErrorResponse(st, status_code, message, io) ==
    SendResponse(st, status_code, ErrorBody(message), NoHeaders, "application/json", io)

\* BaseHTTPRequestHandler.send_error(501) for a command without a do_ method
SendUnsupported(st, io) ==
    SendResponse(st, 501, Str(<<"Unsupported method">>), NoHeaders, "text/html;charset=utf-8", io)

NoOutput == [hbuf |-> <<>>, written |-> <<>>, raised |-> FALSE]

Heads(written) == SelectSeq(written, LAMBDA w : w.kind = "head")
BodiesOf(written) == SelectSeq(written, LAMBDA w : w.kind = "body")

----------------------------------------------------------------------------
(* Listener: main() runs one HTTPServer.serve_forever loop, which accepts  *)
(* a connection, runs its handler to completion and only then accepts the  *)
(* next one.  backlog counts the connections waiting in the listen queue;  *)
(* cur is the one handler that exists.                                     *)

\* the server specification takes one path of every routing class
ServerPaths ==
    {HealthPath, MoviesHealthPath, MoviesPrefix, <<"/api", "/movies", "s">>,
     <<"/api", "/events", "/health">>, <<"/api">>, <<"/health", "/health">>}

NoRoute == [kind |-> "none", url |-> <<>>, drew |-> FALSE, routed |-> FALSE]
NoRequest == [path |-> <<>>, r |-> -1, route |-> NoRoute]
NoResult == [kind |-> "none", status |-> 0, headers |-> NoHeaders,
             content |-> <<>>, reason |-> ""]

Idle == [phase |-> "idle", method |-> "", path |-> <<>>, headers |-> NoHeaders,
         route |-> NoRoute, calls |-> <<>>, down |-> NoResult,
         hbuf |-> <<>>, written |-> <<>>, escaped |-> FALSE]

\* what requests.request can do: return the backend's response (its header
\* block taken from H), or raise a RequestException (connection refused,
\* transport failure, timeout)
DownResults(H) ==
    [kind : {"ok"}, status : {200, 404}, headers : H,
     content : Bodies, reason : {""}]
    \cup [kind : {"reqexc"}, status : {0}, headers : {NoHeaders},
          content : {<<>>}, reason : {"ConnectionError", "Timeout"}]

\* the server specification takes the header blocks that change what the
\* handler does: none, and a Content-Length of every kind
ServerInHeaders == {h \in InHeaders : DOMAIN h \subseteq {"Content-Length"}}
ServerOutHeaders == {h \in OutHeaders : DOMAIN h \subseteq {"Content-Length"}}

Finished(c, o) ==
    [c EXCEPT !.phase = "done", !.hbuf = o.hbuf, !.written = o.written,
              !.escaped = o.raised]

\* _proxy_request lines 70-89 with its handler for Exception
ProxyRequestStart(c, io) ==
    LET ob == BuildOutbound(c.method, c.route.url, c.headers)
    IN  IF ob.raised
        THEN Finished(c, SendErrorResponse(NoOutput, 500, <<"Internal Server Error">>, io))
        ELSE [c EXCEPT !.phase = "calling",
                       !.calls = <<[method |-> ob.method, url |-> ob.url,
                                    headers |-> ob.headers, data |-> ob.data]>>]

\* handle_one_request -> do_<command> -> _handle_request
HandleOneRequest(c, method, path, headers, r, io) ==
    IF method \notin HandledMethods
    THEN Finished([Idle EXCEPT !.method = method, !.path = path, !.headers = headers],
                  SendUnsupported(NoOutput, io))
    ELSE LET req == [Idle EXCEPT !.method = method, !.path = path,
                                 !.headers = headers, !.route = Route(c, path, r)]
         IN  CASE req.route.kind = "local" ->
                    Finished(req, SendResponse(NoOutput, 200, HealthBody, NoHeaders,
                                               "text/plain", io))
               [] req.route.kind = "notfound" ->
                    Finished(req, SendErrorResponse(NoOutput, 404, <<"Not Found">>, io))
               [] OTHER -> ProxyRequestStart(req, io)

\* _proxy_request lines 91-102: relay the response, or map the failure
ProxyRequestFinishRetry(c, res, io, io2) ==
    LET d == [c EXCEPT !.down = res]
    IN  IF res.kind = "reqexc"
        THEN Finished([d EXCEPT !.calls = c.calls \o c.calls],
                      SendErrorResponse(NoOutput, 502, <<"Bad Gateway: ", res.reason>>, io))
        ELSE LET o1 == SendResponse(NoOutput, res.status, Bytes(res.content),
                                    res.headers, None, io)
             IN  IF o1.raised
                 THEN Finished(d, SendErrorResponse(o1, 500,
                                                    <<"Internal Server Error">>, io2))
                 ELSE Finished(d, o1)

ProxyRequestFinish(c, res, io, io2) ==
    LET d == [c EXCEPT !.down = res]
    IN  IF res.kind = "reqexc"
        THEN Finished(d, SendErrorResponse(NoOutput, 502,
                                           <<"Bad Gateway: ", res.reason>>, io))
        ELSE LET o1 == SendResponse(NoOutput, res.status, Bytes(res.content),
                                    res.headers, None, io)
             IN  IF o1.raised
                 THEN Finished(d, SendErrorResponse(o1, 500,
                                                    <<"Internal Server Error">>, io2))
                 ELSE Finished(d, o1)

\* a client connects; the kernel queues the connection
Connect ==
    /\ backlog < MaxBacklog
    /\ backlog' = backlog + 1
    /\ UNCHANGED <<cfg, rt, cur, ev, offsets>>

\* serve_forever takes the next connection and runs its handler up to the
\* end of the request or to the blocking requests.request call
Accept ==
    /\ cur.phase = "idle"
    /\ backlog > 0
    /\ \E method \in Methods, path \in ServerPaths, headers \in ServerInHeaders,
          r \in Draws, io \in IOs :
          cur' = HandleOneRequest(cfg, method, path, headers, r, io)
    /\ backlog' = backlog - 1
    /\ UNCHANGED <<cfg, rt, ev, offsets>>

\* requests.request returns or raises, and the handler finishes
DownstreamReturn ==
    /\ cur.phase = "calling"
    /\ \E res \in DownResults(ServerOutHeaders), io \in IOs, io2 \in IOs :
          cur' = ProxyRequestFinish(cur, res, io, io2)
    /\ UNCHANGED <<cfg, rt, backlog, ev, offsets>>

\* the handler returns to serve_forever, which closes the connection
Close ==
    /\ cur.phase = "done"
    /\ cur' = Idle
    /\ UNCHANGED <<cfg, rt, backlog, ev, offsets>>

----------------------------------------------------------------------------
(* Events service: create_movie_event, create_user_event,                  *)
(* create_payment_event.  A JSON object is a function from the field names *)
(* it contains to their values.                                            *)

Categories == {"movie", "user", "payment"}

required_fields(category) ==
    CASE category = "movie" -> <<"movie_id", "title", "action">>
      [] category = "user" -> <<"user_id", "action", "timestamp">>
      [] OTHER -> <<"payment_id", "user_id", "amount", "status", "timestamp">>

IdFieldsKeyed(category) ==
    CASE category = "movie" -> <<"movie_id", "action">>
      [] category = "user" -> <<"user_id", "action">>
      [] OTHER -> <<"user_id", "status">>

\* the two payload fields the handler puts into the event id, the field whose
\* value is the Kafka key, and the topic
IdFields(category) ==
    CASE category = "movie" -> <<"movie_id", "action">>
      [] category = "user" -> <<"user_id", "action">>
      [] OTHER -> <<"payment_id", "status">>

KeyField(category) == IF category = "movie" THEN "movie_id" ELSE "user_id"

Topic(category) ==
    CASE category = "movie" -> "movie-events"
      [] category = "user" -> "user-events"
      [] OTHER -> "payment-events"

Topics == {Topic(c) : c \in Categories}

Fields == {"movie_id", "title", "action", "user_id", "timestamp",
           "payment_id", "amount", "status"}
EntityFields == {"movie_id", "user_id", "payment_id"}
FieldValues(f) == IF f \in EntityFields THEN {"1", "2"} ELSE {"v"}

JsonObjects ==
    UNION {{d \in [S -> {"1", "2", "v"}] : \A f \in S : d[f] \in FieldValues(f)} :
             S \in SUBSET Fields}

\* uuid.uuid4().hex[:8]
Uuids == {"0a1b2c3d", "ffffffff"}

Range(seq) == {seq[i] : i \in 1..Len(seq)}

\* the first field of the loop "for field in required_fields" that is not in
\* data, or None
FirstMissingSkipLast(category, data) ==
    LET req == required_fields(category)
        missing == {i \in 1..(Len(req) - 1) : req[i] \notin DOMAIN data}
    IN  IF missing = {} THEN None
        ELSE req[CHOOSE i \in missing : \A j \in missing : i <= j]

FirstMissing(category, data) ==
    LET req == required_fields(category)
        missing == {i \in 1..Len(req) : req[i] \notin DOMAIN data}
    IN  IF missing = {} THEN None
        ELSE req[CHOOSE i \in missing : \A j \in missing : i <= j]

\* f"{category}-{data[id]}-{data[action]}-{uuid}"
EventId(category, data, uuid) ==
    <<category, "-", data[IdFields(category)[1]], "-",
      data[IdFields(category)[2]], "-", uuid>>

NoEvent == [category |-> "", data |-> NoHeaders, status |-> 0, error |-> <<>>,
            id |-> <<>>, key |-> "", offset |-> -1]

\* one creation handler from request.get_json() to its return; kafkaOk is
\* whether future.get(timeout=10) returns
CreateEventResult(category, data, uuid, kafkaOk, offs) ==
    LET req == [NoEvent EXCEPT !.category = category, !.data = data]
    IN  IF DOMAIN data = {}
        THEN [req EXCEPT !.status = 400, !.error = <<"Request body is required">>]
        ELSE IF FirstMissing(category, data) # None
        THEN [req EXCEPT !.status = 400,
                         !.error = <<"Missing required field: ",
                                     FirstMissing(category, data)>>]
        ELSE IF ~kafkaOk
        THEN [req EXCEPT !.status = 500, !.error = <<"Failed to send event to Kafka">>]
        ELSE [req EXCEPT !.status = 201,
                         !.id = EventId(category, data, uuid),
                         !.key = data[KeyField(category)],
                         !.offset = offs[Topic(category)]]

CreateEvent ==
    /\ ev = NoEvent
    /\ \E category \in Categories, data \in JsonObjects, uuid \in Uuids,
          kafkaOk \in BOOLEAN :
          LET res == CreateEventResult(category, data, uuid, kafkaOk, offsets)
          IN  /\ res.status = 201 => offsets[Topic(category)] < MaxOffset
              /\ ev' = res
              /\ offsets' = IF res.status = 201
                            THEN [offsets EXCEPT ![Topic(category)] = @ + 1]
                            ELSE offsets
    /\ UNCHANGED <<cfg, rt, backlog, cur>>

\* the response is sent and the request is over
Respond ==
    /\ ev # NoEvent
    /\ ev' = NoEvent
    /\ UNCHANGED <<cfg, rt, backlog, cur, offsets>>

NoOffsets == [t \in Topics |-> 0]

Init ==
    /\ cfg \in ServerConfigs
    /\ rt = NoRequest
    /\ backlog = 0
    /\ cur = Idle
    /\ ev = NoEvent
    /\ offsets = NoOffsets

Next == Connect \/ Accept \/ DownstreamReturn \/ Close

Spec == Init /\ [][Next]_vars

----------------------------------------------------------------------------
(* The router on its own: every path up to MaxPathLen, every percentage    *)
(* and every draw.                                                         *)

\* one request is routed; r is recorded when random.randint was called
Determine ==
    /\ rt = NoRequest
    /\ \E path \in Paths, r \in Draws :
          LET route == Route(cfg, path, r)
          IN  rt' = [path |-> path, r |-> IF route.drew THEN r ELSE -1, route |-> route]
    /\ UNCHANGED <<cfg, backlog, cur, ev, offsets>>

\* the decision is discarded with its request
Forget ==
    /\ rt # NoRequest
    /\ rt' = NoRequest
    /\ UNCHANGED <<cfg, backlog, cur, ev, offsets>>

InitRoute ==
    /\ cfg \in Configs
    /\ rt = NoRequest
    /\ backlog = 0
    /\ cur = Idle
    /\ ev = NoEvent
    /\ offsets = NoOffsets

NextRoute == Determine \/ Forget

SpecRoute == InitRoute /\ [][NextRoute]_vars

----------------------------------------------------------------------------
(* The pass-through bridge on its own: one POST at a time on a path of the *)
(* monolith, with every header block of up to MaxHeaders headers in both   *)
(* directions.                                                             *)

Forward ==
    /\ cur.phase = "idle"
    /\ \E headers \in InHeaders, io \in IOs :
          cur' = HandleOneRequest(cfg, "POST", <<"/api">>, headers, 0, io)
    /\ UNCHANGED <<cfg, rt, backlog, ev, offsets>>

Relay ==
    /\ cur.phase = "calling"
    /\ \E res \in DownResults(OutHeaders), io \in IOs, io2 \in IOs :
          cur' = ProxyRequestFinish(cur, res, io, io2)
    /\ UNCHANGED <<cfg, rt, backlog, ev, offsets>>

InitRelay ==
    /\ cfg \in {c \in Configs : ~c.gradual_migration /\ c.movies_migration_percent = 0}
    /\ rt = NoRequest
    /\ backlog = 0
    /\ cur = Idle
    /\ ev = NoEvent
    /\ offsets = NoOffsets

NextRelay == Forward \/ Relay \/ Close

SpecRelay == InitRelay /\ [][NextRelay]_vars

----------------------------------------------------------------------------
(* The events service on its own *)

InitEvents ==
    /\ cfg \in {c \in Configs : ~c.gradual_migration /\ c.movies_migration_percent = 0}
    /\ rt = NoRequest
    /\ backlog = 0
    /\ cur = Idle
    /\ ev = NoEvent
    /\ offsets = NoOffsets

NextEvents == CreateEvent \/ Respond

SpecEvents == InitEvents /\ [][NextEvents]_vars

----------------------------------------------------------------------------
(* Properties of the router (SpecRoute) *)

Routed == rt # NoRequest
UnderMovies == StartsWith(rt.path, MoviesPrefix) /\ rt.path # MoviesHealthPath

\* C1: a path under /api/movies other than /api/movies/health goes to the
\* movies service iff gradual migration is on and the one draw r is below
\* the percentage, and to the monolith otherwise; so it is always the
\* monolith when migration is off or the percentage is 0, and always the
\* movies service when migration is on and the percentage is 100.
C1_SplitByDraw ==
    (Routed /\ UnderMovies) =>
        /\ rt.route.kind = "proxy"
        /\ rt.route.drew <=> cfg.gradual_migration
        /\ rt.route.drew => rt.r \in Draws
        /\ rt.route.url \in {movies_service_url \o rt.path, monolith_url \o rt.path}
        /\ rt.route.url = movies_service_url \o rt.path
             <=> (cfg.gradual_migration /\ rt.r < cfg.movies_migration_percent)
        /\ ~cfg.gradual_migration => rt.route.url = monolith_url \o rt.path
        /\ cfg.movies_migration_percent = 0 => rt.route.url = monolith_url \o rt.path
        /\ (cfg.gradual_migration /\ cfg.movies_migration_percent = 100)
             => rt.route.url = movies_service_url \o rt.path

C1_Witness ==
    /\ Routed /\ UnderMovies
    /\ cfg.gradual_migration
    /\ cfg.movies_migration_percent = 37
    /\ rt.r = 36
    /\ rt.route.url = movies_service_url \o rt.path

\* C2: every path gets one destination and the 404 branch is never taken;
\* outside /api/movies the destination is a function of the path alone (no
\* draw is taken): the events service under /api/events, the monolith
\* otherwise.
C2_TotalRouting ==
    Routed =>
        /\ rt.route.kind \in {"local", "proxy"}
        /\ rt.route.kind = "proxy" => rt.route.url # <<>>
        /\ (~StartsWith(rt.path, MoviesPrefix) /\ rt.path # HealthPath) =>
              /\ rt.route.kind = "proxy"
              /\ ~rt.route.drew
              /\ rt.route.url = (IF StartsWith(rt.path, EventsPrefix)
                                 THEN events_service_url
                                 ELSE monolith_url) \o rt.path

C2_Witness ==
    /\ Routed
    /\ cfg.gradual_migration
    /\ cfg.movies_migration_percent = 100
    /\ rt.path = <<"/api", "/events", "/health">>
    /\ rt.route.url = events_service_url \o rt.path

\* C3: /api/movies/health always goes to the movies service, whatever the
\* flag and the percentage, and no draw is taken for it.
C3_MoviesHealthBypass ==
    (Routed /\ rt.path = MoviesHealthPath) =>
        /\ rt.route.kind = "proxy"
        /\ rt.route.url = movies_service_url \o MoviesHealthPath
        /\ ~rt.route.drew
        /\ rt.r = -1

C3_Witness ==
    /\ Routed
    /\ rt.path = MoviesHealthPath
    /\ cfg.gradual_migration
    /\ cfg.movies_migration_percent = 0
    /\ rt.route.url = movies_service_url \o MoviesHealthPath

----------------------------------------------------------------------------
(* Properties of the proxy server (Spec) *)

HopByHop == {"host", "connection", "content-length", "transfer-encoding"}

HeadStatuses == {Heads(cur.written)[i].status : i \in 1..Len(Heads(cur.written))}

ErrorAnswer(status) ==
    /\ Len(cur.written) = 2
    /\ cur.written[1].kind = "head"
    /\ cur.written[1].status = status
    /\ cur.written[2].kind = "body"
    /\ IsErrorBody(cur.written[2].content)
    /\ <<"Content-Length", ToStr(Len(cur.written[2].content.data))>>
          \in cur.written[1].headers

C5_LocalHealth ==
    (cur.phase # "idle" /\ cur.method = "GET" /\ cur.path = HealthPath) =>
        /\ cur.phase = "done"
        /\ cur.calls = <<>>
        /\ ~cur.route.routed
        /\ ~cur.route.drew
        /\ cur.down = NoResult
        /\ HeadStatuses \subseteq {200}
        /\ ~cur.escaped =>
              /\ Len(cur.written) = 2
              /\ cur.written[1].status = 200
              /\ <<"Content-Type", "text/plain">> \in cur.written[1].headers
              /\ cur.written[2].content = Encode(HealthBody)

C5_Witness ==
    /\ cur.phase = "done"
    /\ cur.method = "GET"
    /\ cur.path = HealthPath
    /\ backlog = MaxBacklog - 1
    /\ Len(cur.written) = 2
    /\ cur.written[1].status = 200

\* C6: neither relay direction copies Host, Connection, Content-Length or
\* Transfer-Encoding from the received message, every other header is
\* preserved, and the Content-Length sent to the client is the length of
\* the relayed body.
C6_NoHopByHopCopied ==
    /\ \A i \in 1..Len(cur.calls) :
          /\ \A h \in DOMAIN cur.calls[i].headers : Lower(h) \notin HopByHop
          /\ \A h \in DOMAIN cur.headers :
                Lower(h) \notin HopByHop =>
                   /\ h \in DOMAIN cur.calls[i].headers
                   /\ cur.calls[i].headers[h] = cur.headers[h]
    /\ (cur.phase = "done" /\ cur.down.kind = "ok" /\ cur.written # <<>>) =>
          /\ \A h \in DOMAIN cur.down.headers :
                IF Lower(h) \in HopByHop
                THEN <<h, cur.down.headers[h]>> \notin cur.written[1].headers
                ELSE <<h, cur.down.headers[h]>> \in cur.written[1].headers
          /\ <<"Content-Length", ToStr(Len(cur.down.content))>>
                \in cur.written[1].headers

ValidLength ==
    "Content-Length" \in DOMAIN cur.headers => IsInt(cur.headers["Content-Length"])

\* C7: a request of any method on any path other than /health is routed and
\* forwarded to the decided destination with the same method.
C7_AnyMethodForwarded ==
    (cur.phase # "idle" /\ cur.path # HealthPath /\ ValidLength) =>
        /\ cur.route.routed
        /\ Len(cur.calls) = 1
        /\ cur.calls[1].method = cur.method
        /\ cur.calls[1].url = cur.route.url

\* C8: while a request is blocked in its downstream call, a connection that
\* is waiting can be accepted and handled.
C8_NoHeadOfLineBlocking ==
    (cur.phase = "calling" /\ backlog > 0) => ENABLED Accept

\* C10: a finished request has had at most one status line and header block
\* written to its connection, and exactly one unless an exception escaped
\* the handler.
C10_OneResponse ==
    cur.phase = "done" =>
        /\ Len(Heads(cur.written)) <= 1
        /\ ~cur.escaped => Len(Heads(cur.written)) = 1

----------------------------------------------------------------------------
(* Properties of the events service (SpecEvents) *)

EntityField(category) ==
    CASE category = "movie" -> "movie_id"
      [] category = "user" -> "user_id"
      [] OTHER -> "payment_id"

Omitted(e) == {f \in Range(required_fields(e.category)) : f \notin DOMAIN e.data}

C9_Step ==
    (ev = NoEvent /\ ev' # NoEvent) =>
        /\ Omitted(ev') = {} =>
              /\ ev'.status \in {201, 500}
              /\ ev'.status = 500 => offsets' = offsets
              /\ ev'.status = 201 =>
                    /\ SubSeq(ev'.id, 1, 4)
                         = <<ev'.category, "-", ev'.data[EntityField(ev'.category)], "-">>
                    /\ offsets' = [offsets EXCEPT ![Topic(ev'.category)] = @ + 1]
                    /\ ev'.offset = offsets[Topic(ev'.category)]
        /\ Cardinality(Omitted(ev')) = 1 =>
              /\ ev'.status = 400
              /\ \A f \in Omitted(ev') : ev'.error = <<"Missing required field: ", f>>
              /\ offsets' = offsets

\* C9: a creation request with all required fields of its category gets 201
\* with an id that starts "<category>-<entity id>-" when the publish
\* succeeds; one that omits exactly one required field gets 400 naming that
\* field, and nothing is published for it.
C9_CreateEvent == [][C9_Step]_vars

C9_Witness ==
    /\ ev.category = "payment"
    /\ Omitted(ev) = {"timestamp"}
    /\ ev.status = 400
    /\ ev.error = <<"Missing required field: ", "timestamp">>
    /\ offsets["payment-events"] = 1

====
